---- MODULE Spec2Model ----
(***************************************************************************)
(* Model of the live voice/vision overlay (VoiceOverlay): the session      *)
(* lifecycle guard (connect / cleanup and the session token), the remote   *)
(* session callbacks, the playback scheduler and the transcript handling;  *)
(* of the chat view (App): sessions, handleSend and the sidebar; and of    *)
(* the base64 helpers.                                                     *)
(*                                                                         *)
(* Every `await` of the source is a yield point: the code after it is a    *)
(* separate action, so other callbacks may run in between.  Platform       *)
(* objects (audio contexts, media streams, timers, the remote session,     *)
(* buffer sources) are state the code acts on through their documented     *)
(* interfaces.                                                             *)
(***************************************************************************)
EXTENDS Integers, Sequences, FiniteSets, TLC

(* ------------------------------ bounds -------------------------------- *)
MaxConnects == 2      \* connect() calls (effect runs) in one behaviour
MaxText     == 5      \* longest transcript accumulated, in characters
MaxChunks   == 2      \* inbound messages carrying an audio chunk
MaxTime     == 2      \* ticks of an output context's clock
MaxDur      == 1      \* longest chunk duration, in clock ticks
MaxFrames   == 2      \* audio frames captured by onaudioprocess
MaxShots    == 1      \* video frames captured by the frame timer
SampleScale == 1000   \* a sample is an integer n standing for n / SampleScale
MaxSends    == 2      \* handleSend calls in one behaviour
MaxChats    == 1      \* sessions created by the new-chat button
MaxStream   == 1      \* chunks of one text stream
MaxBytes    == 3      \* longest byte array encoded to base64
MaxChars    == 4      \* longest text decoded from base64

(* ------------------------------ constants ----------------------------- *)
EncodeScale == 32767  \* inputData.map(v => v * 32767)
DecodeScale == 32768  \* dataInt16[...] / 32768.0
Int16Span   == 65536  \* values of an Int16Array element
Uint8Span   == 256    \* values of a Uint8Array element

Conns == 1..MaxConnects

(* ------------------------------- text --------------------------------- *)
\* Characters are one-letter strings, texts are sequences of characters.
Upper      == {"F", "R"}
Whitespace == {" "}

AUTO == <<"A", "U", "T", "O">>

\* text.match(/^\[([A-Z]{2})\]/)
MatchLang(text) ==
    /\ Len(text) >= 4
    /\ text[1] = "["
    /\ text[2] \in Upper
    /\ text[3] \in Upper
    /\ text[4] = "]"

RECURSIVE SkipSpace(_, _)
\* the index of the first character at or after i that \s* does not consume
SkipSpace(text, i) ==
    IF i <= Len(text) /\ text[i] \in Whitespace
    THEN SkipSpace(text, i + 1)
    ELSE i

\* StripLang with the \s* of the pattern left out
StripLangKeepSpace(text) == SubSeq(text, 5, Len(text))

\* text.replace(/^\[[A-Z]{2}\]\s*/, '')
StripLang(text) == SubSeq(text, SkipSpace(text, 5), Len(text))

\* parseLang: lang is the value handed to setDetectedLang (<<>> when it is
\* not called), text is the returned string.
parseLang(text) ==
    IF MatchLang(text)
    THEN [lang |-> SubSeq(text, 2, 3), text |-> StripLang(text)]
    ELSE [lang |-> <<>>, text |-> text]


(* ------------------------------- state -------------------------------- *)
VARIABLES
    \* React state of the component
    status, mode, isConnected, inputTranscript, outputTranscript, detectedLang,
    mounted,            \* FALSE once the component is unmounted (state setters are then no-ops)
    \* refs
    audioContextsRef,   \* [input, output]: the connect call whose context is held, 0 = undefined
    gainNodeRef,        \* the connect call whose gain node is held, 0 = null
    sourcesRef,         \* set of indices into sources
    nextStartTime,
    activeSessionId,    \* the token (the minting connect call), 0 = null
    mediaStreamRef,     \* the connect call whose stream is held, 0 = null
    frameIntervalRef,   \* the connect call whose timer id is held, 0 = null
    \* calls in progress
    effects,            \* number of effect runs (connect() calls) so far
    effectPending,      \* the effect teardown has run and its setup is about to
    connPc, connMode,   \* per connect call: position, and the mode its closure captured
    clPc,               \* per cleanup call: position
    decoding,           \* onmessage calls awaiting decodePCM, oldest first
    \* platform objects created by connect call c
    inState, outState,  \* audio contexts: "none", "running", "closed"
    outClock,           \* currentTime of the output context
    streamState,        \* media stream: "none", "live", "stopped"
    timerLive,          \* set of connect calls whose frame timer is running
    sessState,          \* remote session: "none", "opening", "open", "errored", "closed"
    sources,            \* every buffer source created, in creation order
    chunkCount          \* audio chunks taken in by onmessage so far

VARIABLES
    \* capture
    procLive,           \* connect calls whose scriptProcessor is wired to the input context
    resolved,           \* connect calls whose sessionPromise has resolved
    outbox,             \* per connect call: the `then` callbacks queued on its sessionPromise
    sent,               \* per connect call: the media handed to sendRealtimeInput, in order
    frameCount,         \* audio frames captured so far
    shots,              \* video captures in flight: [sess, n, stage]
    shotCount           \* video captures started so far

VARIABLES
    \* React state of App
    sessions,           \* the list of chat sessions, newest first
    currentSessionId,   \* 0 = null
    isGenerating, cloudStatus,
    \* calls in progress
    sends,              \* per handleSend call: position and the values its closure holds
    sendCount,          \* handleSend calls so far
    chatCount,          \* new-chat clicks so far
    uuid                \* values handed out by crypto.randomUUID() so far

VARIABLES
    \* the base64 helpers
    codec               \* the last conversion: its input, its result and the way back

reactVars == <<status, mode, isConnected, inputTranscript, outputTranscript,
               detectedLang, mounted>>
refVars   == <<audioContextsRef, gainNodeRef, sourcesRef, nextStartTime,
               activeSessionId, mediaStreamRef, frameIntervalRef>>
callVars  == <<effects, effectPending, connPc, connMode, clPc, decoding>>
envVars   == <<inState, outState, outClock, streamState, timerLive, sessState,
               sources, chunkCount>>
captureVars == <<procLive, resolved, outbox, sent, frameCount, shots, shotCount>>
appVars   == <<sessions, currentSessionId, isGenerating, cloudStatus,
               sends, sendCount, chatCount, uuid>>
codecVars == <<codec>>
vars      == <<reactVars, refVars, callVars, envVars, captureVars, appVars, codecVars>>

\* cleanup() is called by connect() itself ("conn") and by the teardown of
\* the effect that called connect() ("eff").
CleanupIds == {"conn", "eff"} \X Conns

\* no conversion has been made
NoCodec == [dir |-> "none", bytes |-> <<>>, text |-> <<>>,
            backBytes |-> <<>>, backText |-> <<>>]

\* handleSend calls, and a call that has not been made
Sends == 1..MaxSends

IdleSend ==
    [pc |-> "idle", target |-> 0, aiMsgId |-> 0, kind |-> "text",
     titled |-> FALSE, n |-> 0]

Max(a, b) == IF a >= b THEN a ELSE b
Min(a, b) == IF a <= b THEN a ELSE b

\* a state setter: ignored once the component is unmounted
SetState(new, old) == IF mounted THEN new ELSE old

Init ==
    /\ status = "connecting"
    /\ mode \in {"voice", "vision"}
    /\ isConnected = FALSE
    /\ inputTranscript = <<>>
    /\ outputTranscript = <<>>
    /\ detectedLang = AUTO
    /\ mounted = TRUE
    /\ audioContextsRef = [input |-> 0, output |-> 0]
    /\ gainNodeRef = 0
    /\ sourcesRef = {}
    /\ nextStartTime = 0
    /\ activeSessionId = 0
    /\ mediaStreamRef = 0
    /\ frameIntervalRef = 0
    /\ effects = 0
    /\ effectPending = FALSE
    /\ connPc = [c \in Conns |-> "idle"]
    /\ connMode = [c \in Conns |-> "voice"]
    /\ clPc = [k \in CleanupIds |-> "idle"]
    /\ decoding = <<>>
    /\ inState = [c \in Conns |-> "none"]
    /\ outState = [c \in Conns |-> "none"]
    /\ outClock = [c \in Conns |-> 0]
    /\ streamState = [c \in Conns |-> "none"]
    /\ timerLive = {}
    /\ sessState = [c \in Conns |-> "none"]
    /\ sources = <<>>
    /\ chunkCount = 0
    /\ procLive = {}
    /\ resolved = {}
    /\ outbox = [c \in Conns |-> <<>>]
    /\ sent = [c \in Conns |-> <<>>]
    /\ frameCount = 0
    /\ shots = {}
    /\ shotCount = 0
    /\ sessions = <<>>
    /\ currentSessionId = 0
    /\ isGenerating = FALSE
    /\ cloudStatus = "verified"
    /\ sends = [k \in Sends |-> IdleSend]
    /\ sendCount = 0
    /\ chatCount = 0
    /\ uuid = 0
    /\ codec = NoCodec

(* ------------------------------ cleanup ------------------------------- *)
\* s.stop() on a buffer source: it stops sounding at the current clock time
StopSource(s) ==
    IF s.st = "live"
    THEN [s EXCEPT !.st = "stopped", !.stopAt = outClock[s.ctx]]
    ELSE s

\* StopSet with the loop over the sources left out
StopSetSkipped(srcs, ref) == srcs

\* for (const s of sourcesRef.current) { try { s.stop(); } catch(e) {} }
\* on the source list srcs and the set ref
StopSet(srcs, ref) ==
    [i \in DOMAIN srcs |-> IF i \in ref THEN StopSource(srcs[i]) ELSE srcs[i]]

\* cleanup, up to the first await
CleanupHead ==
    /\ activeSessionId' = 0
    /\ timerLive' = timerLive \ {frameIntervalRef}
    /\ streamState' = IF mediaStreamRef # 0
                      THEN [streamState EXCEPT ![mediaStreamRef] = "stopped"]
                      ELSE streamState
    /\ mediaStreamRef' = 0
    /\ sources' = StopSet(sources, sourcesRef)
    /\ sourcesRef' = {}

\* audioContextsRef.current = {}; setIsConnected(false);
Cleanup58(k) ==
    /\ audioContextsRef' = [input |-> 0, output |-> 0]
    /\ isConnected' = SetState(FALSE, isConnected)
    /\ clPc' = [clPc EXCEPT ![k] = "done"]
    /\ UNCHANGED <<inState, outState>>

\* if (audioContextsRef.current.output) await audioContextsRef.current.output.close();
\* close() on a context that is already closed rejects (InvalidStateError) on
\* engines that follow the Web Audio specification and resolves on lenient
\* ones: rejects is the outcome of this call.
Cleanup57(k, rejects) ==
    LET out == audioContextsRef.output IN
    IF out = 0 THEN Cleanup58(k)
    ELSE /\ clPc' = [clPc EXCEPT ![k] =
                       IF outState[out] = "closed" /\ rejects THEN "failed" ELSE "closeOut"]
         /\ outState' = [outState EXCEPT ![out] = "closed"]
         /\ UNCHANGED <<inState, audioContextsRef, isConnected>>

\* if (audioContextsRef.current.input) await audioContextsRef.current.input.close();
Cleanup56(k, rejects) ==
    LET in == audioContextsRef.input IN
    IF in = 0 THEN Cleanup57(k, rejects)
    ELSE /\ clPc' = [clPc EXCEPT ![k] =
                       IF inState[in] = "closed" /\ rejects THEN "failed" ELSE "closeIn"]
         /\ inState' = [inState EXCEPT ![in] = "closed"]
         /\ UNCHANGED <<outState, audioContextsRef, isConnected>>

\* a call of cleanup(): the code that runs before it first yields
CleanupCall(k, rejects) ==
    /\ CleanupHead
    /\ Cleanup56(k, rejects)

\* cleanup resumes after `await ...input.close()`
CleanupInputClosed(k) ==
    /\ ~effectPending
    /\ clPc[k] = "closeIn"
    /\ \E rejects \in BOOLEAN : Cleanup57(k, rejects)
    /\ UNCHANGED <<status, mode, inputTranscript, outputTranscript, detectedLang, mounted,
                   gainNodeRef, sourcesRef, nextStartTime, activeSessionId,
                   mediaStreamRef, frameIntervalRef,
                   effects, effectPending, connPc, connMode, decoding,
                   outClock, streamState, timerLive, sessState, sources,
                   chunkCount>>
    /\ UNCHANGED <<captureVars, appVars, codecVars>>

\* cleanup resumes after `await ...output.close()`
CleanupOutputClosed(k) ==
    /\ ~effectPending
    /\ clPc[k] = "closeOut"
    /\ Cleanup58(k)
    /\ UNCHANGED <<status, mode, inputTranscript, outputTranscript, detectedLang, mounted,
                   gainNodeRef, sourcesRef, nextStartTime, activeSessionId,
                   mediaStreamRef, frameIntervalRef,
                   effects, effectPending, connPc, connMode, decoding,
                   outClock, streamState, timerLive, sessState, sources,
                   chunkCount>>
    /\ UNCHANGED <<captureVars, appVars, codecVars>>

(* ------------------------------ connect ------------------------------- *)
\* connect(), called by the effect: `await cleanup()`
ConnectCall(c) ==
    /\ connPc[c] = "idle"
    /\ connPc' = [connPc EXCEPT ![c] = "cleanup"]
    /\ connMode' = [connMode EXCEPT ![c] = mode]
    /\ \E rejects \in BOOLEAN : CleanupCall(<<"conn", c>>, rejects)

\* connect resumes after `await cleanup()`: mints the token, creates the two
\* audio contexts and awaits their resume() (two awaits with no code between
\* them, taken as one)
ConnectCleaned(c) ==
    /\ ~effectPending
    /\ connPc[c] = "cleanup"
    /\ clPc[<<"conn", c>>] = "done"
    /\ activeSessionId' = c
    /\ status' = SetState("connecting", status)
    /\ inState' = [inState EXCEPT ![c] = "running"]
    /\ outState' = [outState EXCEPT ![c] = "running"]
    /\ connPc' = [connPc EXCEPT ![c] = "resume"]
    /\ UNCHANGED <<mode, isConnected, inputTranscript, outputTranscript, detectedLang,
                   mounted, audioContextsRef, gainNodeRef, sourcesRef, nextStartTime,
                   mediaStreamRef, frameIntervalRef,
                   effects, effectPending, connMode, clPc, decoding,
                   outClock, streamState, timerLive, sessState, sources,
                   chunkCount>>
    /\ UNCHANGED <<captureVars, appVars, codecVars>>

\* connect resumes after `await outputCtx.resume()`: publishes the contexts
\* and the gain node, then awaits getUserMedia
ConnectResumed(c) ==
    /\ ~effectPending
    /\ connPc[c] = "resume"
    /\ audioContextsRef' = [input |-> c, output |-> c]
    /\ gainNodeRef' = c
    /\ connPc' = [connPc EXCEPT ![c] = "getUserMedia"]
    /\ UNCHANGED <<reactVars, sourcesRef, nextStartTime, activeSessionId,
                   mediaStreamRef, frameIntervalRef,
                   effects, effectPending, connMode, clPc, decoding, envVars>>
    /\ UNCHANGED <<captureVars, appVars, codecVars>>

\* getUserMedia resolved: the token check, then ai.live.connect
ConnectGotStream(c) ==
    /\ ~effectPending
    /\ connPc[c] = "getUserMedia"
    /\ connPc' = [connPc EXCEPT ![c] = "done"]
    /\ IF activeSessionId # c
       THEN /\ streamState' = [streamState EXCEPT ![c] = "stopped"]
            /\ UNCHANGED <<mediaStreamRef, sessState>>
       ELSE /\ streamState' = [streamState EXCEPT ![c] = "live"]
            /\ mediaStreamRef' = c
            /\ sessState' = [sessState EXCEPT ![c] = "opening"]
    /\ UNCHANGED <<reactVars, audioContextsRef, gainNodeRef, sourcesRef, nextStartTime,
                   activeSessionId, frameIntervalRef,
                   effects, effectPending, connMode, clPc, decoding,
                   inState, outState, outClock, timerLive, sources,
                   chunkCount>>
    /\ UNCHANGED <<captureVars, appVars, codecVars>>

\* ConnectStreamFailed with the catch block left empty
ConnectStreamFailedSilent(c) ==
    /\ ~effectPending
    /\ connPc[c] = "getUserMedia"
    /\ connPc' = [connPc EXCEPT ![c] = "done"]
    /\ UNCHANGED <<reactVars, refVars,
                   effects, effectPending, connMode, clPc, decoding, envVars>>
    /\ UNCHANGED <<captureVars, appVars, codecVars>>

\* getUserMedia rejected: catch (err) { setStatus('error'); }
ConnectStreamFailed(c) ==
    /\ ~effectPending
    /\ connPc[c] = "getUserMedia"
    /\ connPc' = [connPc EXCEPT ![c] = "done"]
    /\ status' = SetState("error", status)
    /\ UNCHANGED <<mode, isConnected, inputTranscript, outputTranscript, detectedLang,
                   mounted, refVars,
                   effects, effectPending, connMode, clPc, decoding, envVars>>
    /\ UNCHANGED <<captureVars, appVars, codecVars>>

(* --------------------------- the component ---------------------------- *)
\* The teardown of an effect and the setup of the next one run in the same
\* commit: while effectPending holds no callback runs (every callback
\* action has ~effectPending in its guard).
\* useEffect setup: connect().  It runs on mount and right after the
\* teardown of the previous effect.
RunEffect ==
    /\ mounted
    /\ effects = 0 \/ effectPending
    /\ effects < MaxConnects
    /\ effects' = effects + 1
    /\ effectPending' = FALSE
    /\ ConnectCall(effects + 1)
    /\ UNCHANGED <<status, mode, inputTranscript, outputTranscript, detectedLang, mounted,
                   gainNodeRef, nextStartTime, frameIntervalRef,
                   decoding, outClock, sessState, chunkCount>>
    /\ UNCHANGED <<captureVars, appVars, codecVars>>

\* the mode button: setMode flips the mode, connect is re-created and the
\* effect is torn down (cleanup()) and set up again (RunEffect).
ToggleMode ==
    /\ mounted
    /\ ~effectPending
    /\ effects \in 1..(MaxConnects - 1)
    /\ mode' = IF mode = "voice" THEN "vision" ELSE "voice"
    /\ effectPending' = TRUE
    /\ \E rejects \in BOOLEAN : CleanupCall(<<"eff", effects>>, rejects)
    /\ UNCHANGED <<status, inputTranscript, outputTranscript, detectedLang, mounted,
                   gainNodeRef, nextStartTime, frameIntervalRef,
                   effects, connPc, connMode, decoding,
                   outClock, sessState, chunkCount>>
    /\ UNCHANGED <<captureVars, appVars, codecVars>>

\* the overlay is closed: the component unmounts and the effect is torn down
Unmount ==
    /\ mounted
    /\ ~effectPending
    /\ effects >= 1
    /\ mounted' = FALSE
    /\ \E rejects \in BOOLEAN : CleanupCall(<<"eff", effects>>, rejects)
    /\ UNCHANGED <<status, mode, inputTranscript, outputTranscript, detectedLang,
                   gainNodeRef, nextStartTime, frameIntervalRef,
                   effects, effectPending, connPc, connMode, decoding,
                   outClock, sessState, chunkCount>>
    /\ UNCHANGED <<captureVars, appVars, codecVars>>

(* ----------------------- remote session callbacks --------------------- *)
\* OnOpen with the frame timer started in every mode
OnOpenAlwaysTimer(c) ==
    /\ ~effectPending
    /\ sessState[c] = "opening"
    /\ sessState' = [sessState EXCEPT ![c] = "open"]
    /\ IF activeSessionId # c
       THEN UNCHANGED <<isConnected, status, frameIntervalRef, timerLive>>
       ELSE /\ isConnected' = SetState(TRUE, isConnected)
            /\ status' = SetState("listening", status)
            /\ IF TRUE
               THEN /\ frameIntervalRef' = c
                    /\ timerLive' = timerLive \cup {c}
               ELSE UNCHANGED <<frameIntervalRef, timerLive>>
    /\ UNCHANGED <<mode, inputTranscript, outputTranscript, detectedLang, mounted,
                   audioContextsRef, gainNodeRef, sourcesRef, nextStartTime,
                   activeSessionId, mediaStreamRef, callVars,
                   inState, outState, outClock, streamState, sources,
                   chunkCount>>
    /\ procLive' = IF activeSessionId = c THEN procLive \cup {c} ELSE procLive
    /\ UNCHANGED <<resolved, outbox, sent, frameCount, shots, shotCount, appVars, codecVars>>

\* onopen
OnOpen(c) ==
    /\ ~effectPending
    /\ sessState[c] = "opening"
    /\ sessState' = [sessState EXCEPT ![c] = "open"]
    /\ IF activeSessionId # c
       THEN UNCHANGED <<isConnected, status, frameIntervalRef, timerLive>>
       ELSE /\ isConnected' = SetState(TRUE, isConnected)
            /\ status' = SetState("listening", status)
            /\ IF connMode[c] = "vision"
               THEN /\ frameIntervalRef' = c
                    /\ timerLive' = timerLive \cup {c}
               ELSE UNCHANGED <<frameIntervalRef, timerLive>>
    /\ UNCHANGED <<mode, inputTranscript, outputTranscript, detectedLang, mounted,
                   audioContextsRef, gainNodeRef, sourcesRef, nextStartTime,
                   activeSessionId, mediaStreamRef, callVars,
                   inState, outState, outClock, streamState, sources,
                   chunkCount>>
    /\ procLive' = IF activeSessionId = c THEN procLive \cup {c} ELSE procLive
    /\ UNCHANGED <<resolved, outbox, sent, frameCount, shots, shotCount, appVars, codecVars>>

\* onerror: () => setStatus('error')
OnError(c) ==
    /\ ~effectPending
    /\ sessState[c] \in {"opening", "open"}
    /\ sessState' = [sessState EXCEPT ![c] = "errored"]
    /\ status' = SetState("error", status)
    /\ UNCHANGED <<mode, isConnected, inputTranscript, outputTranscript, detectedLang,
                   mounted, refVars, callVars,
                   inState, outState, outClock, streamState, timerLive, sources,
                   chunkCount>>
    /\ UNCHANGED <<captureVars, appVars, codecVars>>

\* onclose: () => setIsConnected(false)
OnClose(c) ==
    /\ ~effectPending
    /\ sessState[c] \in {"opening", "open", "errored"}
    /\ sessState' = [sessState EXCEPT ![c] = "closed"]
    /\ isConnected' = SetState(FALSE, isConnected)
    /\ UNCHANGED <<status, mode, inputTranscript, outputTranscript, detectedLang,
                   mounted, refVars, callVars,
                   inState, outState, outClock, streamState, timerLive, sources,
                   chunkCount>>
    /\ UNCHANGED <<captureVars, appVars, codecVars>>

\* A message of the remote session.  inT and outT hold the transcription
\* text when the message has one (<<text>>) and are empty otherwise; audio is
\* the duration of the inline audio chunk, 0 when there is none.
Message(inT, outT, turnComplete, audio, interrupted) ==
    [inT |-> inT, outT |-> outT, turnComplete |-> turnComplete,
     audio |-> audio, interrupted |-> interrupted]

\* the detected language after parseLang ran on an optional transcription
LangAfter(opt, lang) ==
    IF opt # <<>> /\ parseLang(opt[1]).lang # <<>> THEN parseLang(opt[1]).lang ELSE lang

\* TextAfter with the delta put in front of the transcript
TextAfterPrepended(opt, t) ==
    IF opt # <<>> THEN parseLang(opt[1]).text \o t ELSE t

\* setXTranscript(t => t + cleaned) for an optional transcription
TextAfter(opt, t) ==
    IF opt # <<>> THEN t \o parseLang(opt[1]).text ELSE t

\* TurnCleared with the turn-complete marker ignored
TurnKept(turnComplete, t) == t

\* if (msg.serverContent?.turnComplete) { setInputTranscript(''); setOutputTranscript(''); }
\* applied to a transcript t that the deltas of the message were appended to
TurnCleared(turnComplete, t) == IF turnComplete THEN <<>> ELSE t

\* onmessage up to `await decodePCM(...)`, or to its end when the message
\* carries no audio
OnMessage(c, m) ==
    /\ ~effectPending
    /\ sessState[c] = "open"
    /\ m.audio > 0 => chunkCount < MaxChunks
    /\ Len(TextAfter(m.inT, inputTranscript)) <= MaxText
    /\ Len(TextAfter(m.outT, outputTranscript)) <= MaxText
    /\ IF activeSessionId # c
       THEN UNCHANGED <<status, inputTranscript, outputTranscript, detectedLang,
                        nextStartTime, decoding, sources, sourcesRef, chunkCount>>
       ELSE /\ chunkCount' = IF m.audio > 0 THEN chunkCount + 1 ELSE chunkCount
            /\ detectedLang' =
                 SetState(LangAfter(m.outT, LangAfter(m.inT, detectedLang)), detectedLang)
            /\ inputTranscript' =
                 SetState(TurnCleared(m.turnComplete, TextAfter(m.inT, inputTranscript)),
                          inputTranscript)
            /\ outputTranscript' =
                 SetState(TurnCleared(m.turnComplete, TextAfter(m.outT, outputTranscript)),
                          outputTranscript)
            /\ IF m.audio > 0
               THEN /\ status' = SetState("speaking", status)
                    /\ nextStartTime' = Max(nextStartTime, outClock[c])
                    /\ decoding' = Append(decoding,
                          [sess |-> c, dur |-> m.audio, interrupted |-> m.interrupted])
                    /\ UNCHANGED <<sources, sourcesRef>>
               ELSE IF m.interrupted
               THEN /\ sources' = StopSet(sources, sourcesRef)
                    /\ sourcesRef' = {}
                    /\ nextStartTime' = 0
                    /\ status' = SetState("listening", status)
                    /\ UNCHANGED decoding
               ELSE UNCHANGED <<status, nextStartTime, decoding, sources, sourcesRef>>
    /\ UNCHANGED <<mode, isConnected, mounted, audioContextsRef, gainNodeRef,
                   activeSessionId, mediaStreamRef, frameIntervalRef,
                   effects, effectPending, connPc, connMode, clPc,
                   inState, outState, outClock, streamState, timerLive, sessState>>
    /\ UNCHANGED <<captureVars, appVars, codecVars>>

\* the buffer source created for a decoded chunk of session c: start(when)
\* with when in the past starts at once
NewSource(c, dur) ==
    [ctx |-> c, start |-> Max(nextStartTime, outClock[c]), dur |-> dur,
     st |-> "live", stopAt |-> -1]

\* onmessage resumes after `await decodePCM(...)` (decodes complete in the
\* order they were started).  source.connect(gainNodeRef.current!) throws
\* when the gain node belongs to another context.
DecodeDone ==
    /\ ~effectPending
    /\ decoding # <<>>
    /\ decoding' = Tail(decoding)
    /\ LET h    == Head(decoding)
           i    == Len(sources) + 1
           srcs == Append(sources, NewSource(h.sess, h.dur))
           ref  == sourcesRef \cup {i}
       IN  IF gainNodeRef # h.sess
           THEN UNCHANGED <<sources, sourcesRef, nextStartTime, status>>
           ELSE IF h.interrupted
           THEN /\ sources' = StopSet(srcs, ref)
                /\ sourcesRef' = {}
                /\ nextStartTime' = 0
                /\ status' = SetState("listening", status)
           ELSE /\ sources' = srcs
                /\ sourcesRef' = ref
                /\ nextStartTime' = nextStartTime + h.dur
                /\ UNCHANGED status
    /\ UNCHANGED <<mode, isConnected, inputTranscript, outputTranscript, detectedLang,
                   mounted, audioContextsRef, gainNodeRef, activeSessionId,
                   mediaStreamRef, frameIntervalRef,
                   effects, effectPending, connPc, connMode, clPc,
                   inState, outState, outClock, streamState, timerLive, sessState,
                   chunkCount>>
    /\ UNCHANGED <<captureVars, appVars, codecVars>>

\* the `ended` event of a source is due: it played to its end, or it was
\* stopped; a closed context delivers no events
EndedDue(i) ==
    /\ outState[sources[i].ctx] = "running"
    /\ \/ sources[i].st = "stopped"
       \/ /\ sources[i].st = "live"
          /\ outClock[sources[i].ctx] >= sources[i].start + sources[i].dur

\* OnEnded without the test of the size of the set
OnEndedAlwaysListening(i) ==
    /\ ~effectPending
    /\ i \in DOMAIN sources
    /\ EndedDue(i)
    /\ sources' = [sources EXCEPT ![i].st = "ended"]
    /\ sourcesRef' = sourcesRef \ {i}
    /\ status' = SetState("listening", status)
    /\ UNCHANGED <<mode, isConnected, inputTranscript, outputTranscript, detectedLang,
                   mounted, audioContextsRef, gainNodeRef, nextStartTime, activeSessionId,
                   mediaStreamRef, frameIntervalRef, callVars,
                   inState, outState, outClock, streamState, timerLive, sessState,
                   chunkCount>>
    /\ UNCHANGED <<captureVars, appVars, codecVars>>

\* source.onended
OnEnded(i) ==
    /\ ~effectPending
    /\ i \in DOMAIN sources
    /\ EndedDue(i)
    /\ sources' = [sources EXCEPT ![i].st = "ended"]
    /\ sourcesRef' = sourcesRef \ {i}
    /\ status' = IF sourcesRef \ {i} = {} THEN SetState("listening", status) ELSE status
    /\ UNCHANGED <<mode, isConnected, inputTranscript, outputTranscript, detectedLang,
                   mounted, audioContextsRef, gainNodeRef, nextStartTime, activeSessionId,
                   mediaStreamRef, frameIntervalRef, callVars,
                   inState, outState, outClock, streamState, timerLive, sessState,
                   chunkCount>>
    /\ UNCHANGED <<captureVars, appVars, codecVars>>

\* the clocks of the running output contexts advance
Tick ==
    /\ ~effectPending
    /\ \E c \in Conns : outState[c] = "running"
    /\ \A c \in Conns : outState[c] = "running" => outClock[c] < MaxTime
    /\ outClock' = [c \in Conns |->
                      IF outState[c] = "running" THEN outClock[c] + 1 ELSE outClock[c]]
    /\ UNCHANGED <<reactVars, refVars, callVars,
                   inState, outState, streamState, timerLive, sessState, sources,
                   chunkCount>>
    /\ UNCHANGED <<captureVars, appVars, codecVars>>

(* ------------------------------- capture ------------------------------ *)
\* The samples a capture frame may hold (one sample stands for the frame):
\* the ends of [-1, 1], 0 and the value next to 1.
Samples == {-SampleScale, 0, SampleScale - 1, SampleScale}

\* Samples outside [-1, 1], as a capture device without limiting may
\* deliver them: just outside the range, 1.5, 2 and 3 times full scale
WideSamples ==
    {-2 * SampleScale, -(3 * SampleScale) \div 2, -SampleScale - 1,
     SampleScale + 1, (3 * SampleScale) \div 2, 2 * SampleScale, 3 * SampleScale}

\* the integer part of a / b for b > 0: a conversion to an integer drops
\* the fraction
Trunc(a, b) == IF a >= 0 THEN a \div b ELSE -((-a) \div b)

\* ToInt16 with values outside the range clamped to its ends
ToInt16Saturated(x) == Max(-(Int16Span \div 2), Min(Int16Span \div 2 - 1, x))

\* the element an Int16Array stores for the integer x
ToInt16(x) == ((x + Int16Span \div 2) % Int16Span) - Int16Span \div 2

\* new Int16Array(inputData.map(v => v * 32767)) for the sample
\* n / SampleScale (the rounding of the product to a 32-bit float, less than
\* 1/256 here, is left out)
EncodePCM16(n) == ToInt16(Trunc(n * EncodeScale, SampleScale))

\* decodePCM: channelData[i] = dataInt16[i] / 32768.0, as a fraction
decodePCM(pcm) == [num |-> pcm, den |-> DecodeScale]

\* the media of an audio frame and of a video frame
AudioFrame(n, sample) ==
    [kind |-> "audio", n |-> n, sample |-> sample, data |-> EncodePCM16(sample)]

VideoFrame(n) == [kind |-> "video", n |-> n, sample |-> 0, data |-> 0]

\* the promise returned by ai.live.connect resolves once the session is open
SessionResolved(c) ==
    /\ ~effectPending
    /\ sessState[c] = "open"
    /\ c \notin resolved
    /\ resolved' = resolved \cup {c}
    /\ UNCHANGED <<procLive, outbox, sent, frameCount, shots, shotCount>>
    /\ UNCHANGED <<reactVars, refVars, callVars, envVars, appVars, codecVars>>

\* scriptProcessor.onaudioprocess for a frame holding the sample
OnAudioProcess(c, sample) ==
    /\ ~effectPending
    /\ c \in procLive
    /\ inState[c] = "running"
    /\ frameCount < MaxFrames
    /\ IF activeSessionId # c
       THEN UNCHANGED <<outbox, frameCount>>
       ELSE /\ frameCount' = frameCount + 1
            /\ outbox' = [outbox EXCEPT
                            ![c] = Append(@, AudioFrame(frameCount + 1, sample))]
    /\ UNCHANGED <<procLive, resolved, sent, shots, shotCount>>
    /\ UNCHANGED <<reactVars, refVars, callVars, envVars, appVars, codecVars>>

\* SendInput with the newest queued callback run first
SendInputNewestFirst(c) ==
    /\ ~effectPending
    /\ c \in resolved
    /\ outbox[c] # <<>>
    /\ sent' = [sent EXCEPT ![c] = Append(@, outbox[c][Len(outbox[c])])]
    /\ outbox' = [outbox EXCEPT ![c] = SubSeq(@, 1, Len(@) - 1)]
    /\ UNCHANGED <<procLive, resolved, frameCount, shots, shotCount>>
    /\ UNCHANGED <<reactVars, refVars, callVars, envVars, appVars, codecVars>>

\* sessionPromise.then(s => s.sendRealtimeInput(...)): the callbacks of a
\* promise run in the order they were registered, once it has resolved
SendInput(c) ==
    /\ ~effectPending
    /\ c \in resolved
    /\ outbox[c] # <<>>
    /\ sent' = [sent EXCEPT ![c] = Append(@, Head(outbox[c]))]
    /\ outbox' = [outbox EXCEPT ![c] = Tail(@)]
    /\ UNCHANGED <<procLive, resolved, frameCount, shots, shotCount>>
    /\ UNCHANGED <<reactVars, refVars, callVars, envVars, appVars, codecVars>>

\* a tick of the frame timer: ready tells whether the video element has a
\* frame (readyState >= 2); the video element exists in vision mode only
FrameTick(c, ready) ==
    /\ ~effectPending
    /\ c \in timerLive
    /\ shotCount < MaxShots
    /\ IF activeSessionId # c \/ mode # "vision" \/ ~ready
       THEN UNCHANGED <<shots, shotCount>>
       ELSE /\ shotCount' = shotCount + 1
            /\ shots' = shots \cup
                           {[sess |-> c, n |-> shotCount + 1, stage |-> "toBlob"]}
    /\ UNCHANGED <<procLive, resolved, outbox, sent, frameCount>>
    /\ UNCHANGED <<reactVars, refVars, callVars, envVars, appVars, codecVars>>

\* the callback of canvas.toBlob: with a blob it starts the file reader
FrameEncoded(n, blob) ==
    /\ ~effectPending
    /\ \E sh \in shots :
          /\ sh.n = n
          /\ sh.stage = "toBlob"
          /\ shots' = IF blob
                      THEN (shots \ {sh}) \cup {[sh EXCEPT !.stage = "read"]}
                      ELSE shots \ {sh}
    /\ UNCHANGED <<procLive, resolved, outbox, sent, frameCount, shotCount>>
    /\ UNCHANGED <<reactVars, refVars, callVars, envVars, appVars, codecVars>>

\* reader.onloadend: the data URL is read and the image is queued on the
\* session promise
FrameRead(n) ==
    /\ ~effectPending
    /\ \E sh \in shots :
          /\ sh.n = n
          /\ sh.stage = "read"
          /\ shots' = shots \ {sh}
          /\ outbox' = [outbox EXCEPT ![sh.sess] = Append(@, VideoFrame(sh.n))]
    /\ UNCHANGED <<procLive, resolved, sent, frameCount, shotCount>>
    /\ UNCHANGED <<reactVars, refVars, callVars, envVars, appVars, codecVars>>

(* --------------------------------- App -------------------------------- *)
\* A session is [id, title, messages]; a message is [id, role, text,
\* isError, media] with media naming the generated attachment ("" when
\* there is none).  The time stamps are left out.
NewSession(id) == [id |-> id, title |-> "Temporal Node", messages |-> <<>>]

UserMsg(id) ==
    [id |-> id, role |-> "user", text |-> "text", isError |-> FALSE, media |-> ""]

AiMsg(id) ==
    [id |-> id, role |-> "model", text |-> "Scanning Neural Pathways...",
     isError |-> FALSE, media |-> ""]

\* what handleSend generates: /video/i.test(text) comes first, then
\* /draw|image|picture/i.test(text) && attachments.length === 0
Kinds == {"text", "image", "video"}

\* err.message of the errors the generation functions throw
ErrMessages == {"Video synthesis failed.", "Failed to fetch"}

\* the titles generateSmartTitle resolves to
Titles == {"Interface Session", "Neural Log"}

RECURSIVE FullText(_)
\* fullText of sendMessageStream after n chunks of text "c"
FullText(n) == IF n = 0 THEN "" ELSE FullText(n - 1) \o "c"

\* sessions.find(s => s.id === id), as the set of matching positions
Find(ss, id) == {i \in DOMAIN ss : ss[i].id = id}

\* currentSession = sessions.find(s => s.id === currentSessionId); the
\* number of its messages, -1 when there is none
CurrentLength ==
    IF Find(sessions, currentSessionId) = {} THEN -1
    ELSE Len(sessions[CHOOSE i \in Find(sessions, currentSessionId) : TRUE].messages)

\* prev.map(s => s.id === sid ? {...s, messages: [...s.messages, m]} : s)
AppendMsg(ss, sid, m) ==
    [i \in DOMAIN ss |->
        IF ss[i].id = sid THEN [ss[i] EXCEPT !.messages = Append(@, m)] ELSE ss[i]]

\* {...m, text, isError: true} resp. {...m, text, generatedVideo / generatedImage}
Patched(m, text, err, media) ==
    [m EXCEPT !.text = text,
              !.isError = IF err THEN TRUE ELSE @,
              !.media = IF media # "" THEN media ELSE @]

\* PatchMsg with the last message of the session patched, whatever its id
PatchMsgLast(ss, sid, mid, text, err, media) ==
    [i \in DOMAIN ss |->
        IF ss[i].id = sid
        THEN [ss[i] EXCEPT !.messages =
                [j \in DOMAIN @ |->
                    IF j = Len(@) THEN Patched(@[j], text, err, media) ELSE @[j]]]
        ELSE ss[i]]

\* prev.map(s => s.id === sid
\*   ? {...s, messages: s.messages.map(m => m.id === mid ? {...m, ...} : m)} : s)
PatchMsg(ss, sid, mid, text, err, media) ==
    [i \in DOMAIN ss |->
        IF ss[i].id = sid
        THEN [ss[i] EXCEPT !.messages =
                [j \in DOMAIN @ |->
                    IF @[j].id = mid THEN Patched(@[j], text, err, media) ELSE @[j]]]
        ELSE ss[i]]

\* the text the placeholder gets before the generation is awaited
StartText(kind) ==
    CASE kind = "video" -> "Initiating VEO-3.1 Synthesis Engine..."
      [] kind = "image" -> "Synthesizing Neural Visual..."
      [] OTHER          -> "Scanning Neural Pathways..."

\* the entry points of handleSend: the chat input (not while generating),
\* the regenerate button of a message and the two suggestions of the empty
\* view ("Draw ..." and "Analyze ...")
CanSend(kind) ==
    \/ ~isGenerating
    \/ kind = "text"
    \/ kind = "image" /\ CurrentLength <= 0

\* the mount effect finds a saved list under the storage key: one session
\* holding one message
LoadSaved ==
    /\ uuid = 0 /\ sendCount = 0 /\ chatCount = 0 /\ sessions = <<>>
    /\ sessions' = <<[NewSession(1) EXCEPT !.messages = <<UserMsg(2)>>]>>
    /\ currentSessionId' = 1
    /\ uuid' = 2
    /\ UNCHANGED <<isGenerating, cloudStatus, sends, sendCount, chatCount>>
    /\ UNCHANGED <<reactVars, refVars, callVars, envVars, captureVars, codecVars>>

\* handleSend up to its first await: the session is created when there is
\* none, the user message and the placeholder are appended, and the
\* generation is started
HandleSend(kind) ==
    /\ sendCount < MaxSends
    /\ CanSend(kind)
    /\ LET k      == sendCount + 1
           fresh  == currentSessionId = 0
           sid    == IF fresh THEN uuid + 1 ELSE currentSessionId
           base   == IF fresh THEN uuid + 1 ELSE uuid
           ss0    == IF fresh THEN <<NewSession(sid)>> \o sessions ELSE sessions
           ss1    == AppendMsg(AppendMsg(ss0, sid, UserMsg(base + 1)), sid, AiMsg(base + 2))
       IN  /\ sessions' = PatchMsg(ss1, sid, base + 2, StartText(kind), FALSE, "")
           /\ currentSessionId' = sid
           /\ uuid' = base + 2
           /\ sends' = [sends EXCEPT ![k] =
                          [pc |-> "gen", target |-> sid, aiMsgId |-> base + 2,
                           kind |-> kind, titled |-> CurrentLength = 1, n |-> 0]]
           /\ sendCount' = k
    /\ cloudStatus' = "syncing"
    /\ isGenerating' = TRUE
    /\ UNCHANGED chatCount
    /\ UNCHANGED <<reactVars, refVars, callVars, envVars, captureVars, codecVars>>

\* the text stream of call k yields a chunk
SendChunk(k) ==
    /\ sends[k].pc = "gen"
    /\ sends[k].kind = "text"
    /\ sends[k].n < MaxStream
    /\ sessions' = PatchMsg(sessions, sends[k].target, sends[k].aiMsgId,
                            FullText(sends[k].n + 1), FALSE, "")
    /\ sends' = [sends EXCEPT ![k].n = @ + 1]
    /\ UNCHANGED <<currentSessionId, isGenerating, cloudStatus, sendCount, chatCount, uuid>>
    /\ UNCHANGED <<reactVars, refVars, callVars, envVars, captureVars, codecVars>>

\* the generation of call k ends without an error: the video or image is
\* attached (a text stream just ends), the title is requested when the
\* session held one message, then setCloudStatus('verified') and the
\* finally block
SendDone(k) ==
    /\ sends[k].pc = "gen"
    /\ sessions' =
         CASE sends[k].kind = "video" ->
                PatchMsg(sessions, sends[k].target, sends[k].aiMsgId,
                         "Synthesis Complete.", FALSE, "video")
           [] sends[k].kind = "image" ->
                PatchMsg(sessions, sends[k].target, sends[k].aiMsgId,
                         "Visual Link Established.", FALSE, "image")
           [] OTHER -> sessions
    /\ sends' = [sends EXCEPT ![k].pc = IF sends[k].titled THEN "title" ELSE "done"]
    /\ cloudStatus' = "verified"
    /\ isGenerating' = FALSE
    /\ UNCHANGED <<currentSessionId, sendCount, chatCount, uuid>>
    /\ UNCHANGED <<reactVars, refVars, callVars, envVars, captureVars, codecVars>>

\* SendFailed with the catch block leaving cloudStatus alone
SendFailedStillSyncing(k, msg) ==
    /\ sends[k].pc = "gen"
    /\ sessions' = PatchMsg(sessions, sends[k].target, sends[k].aiMsgId,
                            "Neural Exception: " \o msg, TRUE, "")
    /\ sends' = [sends EXCEPT ![k].pc = "done"]
    /\ isGenerating' = FALSE
    /\ UNCHANGED <<currentSessionId, cloudStatus, sendCount, chatCount, uuid>>
    /\ UNCHANGED <<reactVars, refVars, callVars, envVars, captureVars, codecVars>>

\* the generation of call k throws err with err.message = msg: the catch
\* block, then the finally block
SendFailed(k, msg) ==
    /\ sends[k].pc = "gen"
    /\ sessions' = PatchMsg(sessions, sends[k].target, sends[k].aiMsgId,
                            "Neural Exception: " \o msg, TRUE, "")
    /\ sends' = [sends EXCEPT ![k].pc = "done"]
    /\ cloudStatus' = "idle"
    /\ isGenerating' = FALSE
    /\ UNCHANGED <<currentSessionId, sendCount, chatCount, uuid>>
    /\ UNCHANGED <<reactVars, refVars, callVars, envVars, captureVars, codecVars>>

\* generateSmartTitle(...).then(title => setSessions(... {...s, title} ...))
TitleResolved(k, title) ==
    /\ sends[k].pc = "title"
    /\ sessions' = [i \in DOMAIN sessions |->
                      IF sessions[i].id = sends[k].target
                      THEN [sessions[i] EXCEPT !.title = title] ELSE sessions[i]]
    /\ sends' = [sends EXCEPT ![k].pc = "done"]
    /\ UNCHANGED <<currentSessionId, isGenerating, cloudStatus, sendCount, chatCount, uuid>>
    /\ UNCHANGED <<reactVars, refVars, callVars, envVars, captureVars, codecVars>>

\* onNewChat
NewChat ==
    /\ chatCount < MaxChats
    /\ chatCount' = chatCount + 1
    /\ uuid' = uuid + 1
    /\ sessions' = <<NewSession(uuid + 1)>> \o sessions
    /\ currentSessionId' = uuid + 1
    /\ UNCHANGED <<isGenerating, cloudStatus, sends, sendCount>>
    /\ UNCHANGED <<reactVars, refVars, callVars, envVars, captureVars, codecVars>>

\* onSelectChat(id), for a session of the list the sidebar shows
SelectChat(i) ==
    /\ i \in DOMAIN sessions
    /\ currentSessionId' = sessions[i].id
    /\ UNCHANGED <<sessions, isGenerating, cloudStatus, sends, sendCount, chatCount, uuid>>
    /\ UNCHANGED <<reactVars, refVars, callVars, envVars, captureVars, codecVars>>

RECURSIVE Without(_, _)
\* p.filter(s => s.id !== id)
Without(ss, id) ==
    IF ss = <<>> THEN <<>>
    ELSE IF Head(ss).id = id THEN Without(Tail(ss), id)
    ELSE <<Head(ss)>> \o Without(Tail(ss), id)

\* DeleteChat with the current session id left alone
DeleteChatKeepCurrent(i) ==
    /\ i \in DOMAIN sessions
    /\ sessions' = Without(sessions, sessions[i].id)
    /\ UNCHANGED currentSessionId
    /\ UNCHANGED <<isGenerating, cloudStatus, sends, sendCount, chatCount, uuid>>
    /\ UNCHANGED <<reactVars, refVars, callVars, envVars, captureVars, codecVars>>

\* onDeleteChat(id), for a session of the list the sidebar shows
DeleteChat(i) ==
    /\ i \in DOMAIN sessions
    /\ sessions' = Without(sessions, sessions[i].id)
    /\ currentSessionId' = IF currentSessionId = sessions[i].id THEN 0
                           ELSE currentSessionId
    /\ UNCHANGED <<isGenerating, cloudStatus, sends, sendCount, chatCount, uuid>>
    /\ UNCHANGED <<reactVars, refVars, callVars, envVars, captureVars, codecVars>>

\* onStop: () => setIsGenerating(false); the button shows while generating
Stop ==
    /\ isGenerating
    /\ isGenerating' = FALSE
    /\ UNCHANGED <<sessions, currentSessionId, cloudStatus, sends, sendCount, chatCount, uuid>>
    /\ UNCHANGED <<reactVars, refVars, callVars, envVars, captureVars, codecVars>>

(* ------------------------------- base64 ------------------------------- *)
\* A binary string is the sequence of its code units; a base64 text is the
\* sequence of its characters.
Alphabet ==
    << "A", "B", "C", "D", "E", "F", "G", "H", "I", "J", "K", "L", "M",
       "N", "O", "P", "Q", "R", "S", "T", "U", "V", "W", "X", "Y", "Z",
       "a", "b", "c", "d", "e", "f", "g", "h", "i", "j", "k", "l", "m",
       "n", "o", "p", "q", "r", "s", "t", "u", "v", "w", "x", "y", "z",
       "0", "1", "2", "3", "4", "5", "6", "7", "8", "9", "+", "/" >>

\* the character of a 6-bit value, and the value of a character
Char(v) == Alphabet[v + 1]
Value(ch) == (CHOOSE i \in DOMAIN Alphabet : Alphabet[i] = ch) - 1
IsBase64Char(ch) == \E i \in DOMAIN Alphabet : Alphabet[i] = ch

RECURSIVE btoaNoPad(_)
\* btoa without the padding characters
btoaNoPad(bin) ==
    IF Len(bin) = 0 THEN <<>>
    ELSE IF Len(bin) = 1
    THEN << Char(bin[1] \div 4), Char((bin[1] % 4) * 16) >>
    ELSE IF Len(bin) = 2
    THEN << Char(bin[1] \div 4), Char((bin[1] % 4) * 16 + bin[2] \div 16),
            Char((bin[2] % 16) * 4) >>
    ELSE << Char(bin[1] \div 4), Char((bin[1] % 4) * 16 + bin[2] \div 16),
            Char((bin[2] % 16) * 4 + bin[3] \div 64), Char(bin[3] % 64) >>
         \o btoaNoPad(SubSeq(bin, 4, Len(bin)))

RECURSIVE btoa(_)
\* btoa of a binary string whose code units are below 256: three bytes
\* give four characters, a rest of one or two bytes is padded with "="
btoa(bin) ==
    IF Len(bin) = 0 THEN <<>>
    ELSE IF Len(bin) = 1
    THEN << Char(bin[1] \div 4), Char((bin[1] % 4) * 16), "=", "=" >>
    ELSE IF Len(bin) = 2
    THEN << Char(bin[1] \div 4), Char((bin[1] % 4) * 16 + bin[2] \div 16),
            Char((bin[2] % 16) * 4), "=" >>
    ELSE << Char(bin[1] \div 4), Char((bin[1] % 4) * 16 + bin[2] \div 16),
            Char((bin[2] % 16) * 4 + bin[3] \div 64), Char(bin[3] % 64) >>
         \o btoa(SubSeq(bin, 4, Len(bin)))

RECURSIVE StripSpace(_)
\* atob first removes the ASCII whitespace
StripSpace(text) ==
    IF text = <<>> THEN <<>>
    ELSE IF Head(text) \in Whitespace THEN StripSpace(Tail(text))
    ELSE <<Head(text)>> \o StripSpace(Tail(text))

\* then, when the length is a multiple of four, one or two "=" at the end
StripPadding(text) ==
    IF Len(text) % 4 = 0 /\ Len(text) > 0 /\ text[Len(text)] = "="
    THEN IF text[Len(text) - 1] = "="
         THEN SubSeq(text, 1, Len(text) - 2)
         ELSE SubSeq(text, 1, Len(text) - 1)
    ELSE text

RECURSIVE DecodeGroups(_)
\* the bytes of the characters, four at a time; the bits left over by a
\* rest of two or three characters are dropped
DecodeGroups(data) ==
    IF Len(data) = 0 THEN <<>>
    ELSE IF Len(data) = 2
    THEN << Value(data[1]) * 4 + Value(data[2]) \div 16 >>
    ELSE IF Len(data) = 3
    THEN << Value(data[1]) * 4 + Value(data[2]) \div 16,
            (Value(data[2]) % 16) * 16 + Value(data[3]) \div 4 >>
    ELSE << Value(data[1]) * 4 + Value(data[2]) \div 16,
            (Value(data[2]) % 16) * 16 + Value(data[3]) \div 4,
            (Value(data[3]) % 4) * 64 + Value(data[4]) >>
         \o DecodeGroups(SubSeq(data, 5, Len(data)))

\* atob: ok is FALSE when it throws (a length of 4n + 1 after the padding
\* is removed, or a character outside the alphabet)
atob(text) ==
    LET data == StripPadding(StripSpace(text))
    IN  IF Len(data) % 4 = 1 \/ \E i \in DOMAIN data : ~IsBase64Char(data[i])
        THEN [ok |-> FALSE, bin |-> <<>>]
        ELSE [ok |-> TRUE, bin |-> DecodeGroups(data)]

\* decodeBase64: bytes[i] = binaryString.charCodeAt(i), stored in a
\* Uint8Array
decodeBase64(base64) ==
    LET binaryString == atob(base64).bin
    IN  [i \in DOMAIN binaryString |-> binaryString[i] % Uint8Span]

\* encodeBase64: binary += String.fromCharCode(bytes[i]); btoa(binary)
encodeBase64(bytes) ==
    btoa([i \in DOMAIN bytes |-> bytes[i] % Int16Span])

\* the byte arrays and the texts that are converted
ByteValues == {0, 1, 127, 128, 255}
TextChars  == {"A", "E", "Q", "/", "="}

SeqsUpTo(S, n) == UNION {[1..m -> S] : m \in 0..n}

ByteArrays  == SeqsUpTo(ByteValues, MaxBytes)
Base64Texts == SeqsUpTo(TextChars, MaxChars)

\* a byte array is encoded and the text decoded again (the helpers are
\* pure: one conversion is followed per behaviour)
EncodeDecode(bytes) ==
    /\ codec = NoCodec
    /\ codec' = [dir |-> "bytes", bytes |-> bytes, text |-> encodeBase64(bytes),
                 backBytes |-> decodeBase64(encodeBase64(bytes)), backText |-> <<>>]
    /\ UNCHANGED <<reactVars, refVars, callVars, envVars, captureVars, appVars>>

\* a text is decoded and the bytes encoded again; decodeBase64 throws when
\* atob does
DecodeEncode(text) ==
    /\ codec = NoCodec
    /\ codec' = IF atob(text).ok
                THEN [dir |-> "text", bytes |-> decodeBase64(text), text |-> text,
                      backBytes |-> <<>>, backText |-> encodeBase64(decodeBase64(text))]
                ELSE [NoCodec EXCEPT !.dir = "threw", !.text = text]
    /\ UNCHANGED <<reactVars, refVars, callVars, envVars, captureVars, appVars>>

(* --------------------------- specifications --------------------------- *)
\* an optional transcription: none, or one of the deltas
Optional(deltas) == {<<>>} \cup {<<d>> : d \in deltas}

\* the transcription delta of the lifecycle specification
LiveTexts == Optional({<<"[", "F", "R", "]", " ", "B", "B", "B">>})

\* transcription deltas of the transcript specification: tagged with and
\* without following whitespace, untagged, and near misses of the tag
Deltas ==
    { <<"[", "F", "R", "]", " ", "B">>,
      <<"[", "F", "R", "]", "B">>,
      <<"[", "R", "F", "]", " ", " ", "B">>,
      <<"[", "F", "R", "]">>,
      <<"[", "R", "F", "]", "[", "F", "R", "]">>,
      <<"B">>,
      <<" ", "B">>,
      <<>>,
      <<" ", "[", "F", "R", "]">>,
      <<"[", "f", "r", "]">>,
      <<"[", "F", "]", "B">>,
      <<"[", "F", "R", "R", "]">>,
      <<"[", "F", "R", " ">> }

\* the deltas that also arrive two in one message, or with a turn-complete
\* marker
PairDeltas ==
    { <<"[", "F", "R", "]", " ", "B">>,
      <<"[", "R", "F", "]", " ", " ", "B">>,
      <<"B">> }

\* the deltas that arrive as output transcriptions
OutDeltas == PairDeltas \cup { <<"[", "f", "r", "]">> }

\* messages of the transcript specification
TextMsgs ==
    {Message(<<d>>, <<>>, FALSE, 0, FALSE) : d \in Deltas}
    \cup {Message(<<>>, <<d>>, FALSE, 0, FALSE) : d \in OutDeltas}
    \cup {Message(t, u, tc, 0, FALSE) :
            t \in Optional(PairDeltas), u \in Optional(PairDeltas), tc \in BOOLEAN}

TextOnly(texts) ==
    {Message(t, u, tc, 0, FALSE) : t \in texts, u \in texts, tc \in BOOLEAN}

AudioOnly ==
    {Message(<<>>, <<>>, FALSE, a, i) : a \in 0..MaxDur, i \in BOOLEAN}

\* messages of the playback specifications
LiveMsgs ==
    {Message(t, <<>>, tc, 0, FALSE) : t \in LiveTexts, tc \in BOOLEAN} \cup AudioOnly

\* continuations of connect() and cleanup()
Continue ==
    \/ \E k \in CleanupIds : CleanupInputClosed(k)
    \/ \E k \in CleanupIds : CleanupOutputClosed(k)
    \/ \E c \in Conns : ConnectCleaned(c)
    \/ \E c \in Conns : ConnectResumed(c)
    \/ \E c \in Conns : ConnectGotStream(c)
    \/ \E c \in Conns : ConnectStreamFailed(c)

\* events of the remote sessions other than messages
SessionEvent ==
    \/ \E c \in Conns : OnOpen(c)
    \/ \E c \in Conns : OnError(c)
    \/ \E c \in Conns : OnClose(c)

\* decode completions, ended events and the passage of time
Playback ==
    \/ DecodeDone
    \/ \E i \in 1..MaxChunks : OnEnded(i)
    \/ Tick

\* audio and video capture, and the hand-over to the remote session
Capture ==
    \/ \E c \in Conns : SessionResolved(c)
    \/ \E c \in Conns : \E sample \in Samples : OnAudioProcess(c, sample)
    \/ \E c \in Conns : \E ready \in BOOLEAN : FrameTick(c, ready)
    \/ \E n \in 1..MaxShots : \E blob \in BOOLEAN : FrameEncoded(n, blob)
    \/ \E n \in 1..MaxShots : FrameRead(n)
    \/ \E c \in Conns : SendInput(c)

\* the sessions a list may hold at once
MaxSessions == MaxSends + MaxChats + 1

\* Everything the chat view can do.
NextApp ==
    \/ LoadSaved
    \/ \E kind \in Kinds : HandleSend(kind)
    \/ \E k \in Sends : SendChunk(k)
    \/ \E k \in Sends : SendDone(k)
    \/ \E k \in Sends : \E msg \in ErrMessages : SendFailed(k, msg)
    \/ \E k \in Sends : \E title \in Titles : TitleResolved(k, title)
    \/ NewChat
    \/ \E i \in 1..MaxSessions : SelectChat(i)
    \/ \E i \in 1..MaxSessions : DeleteChat(i)
    \/ Stop

\* Generation: handleSend calls run, alone and several at once, while
\* sessions are deleted and generation is stopped.
NextSend ==
    \/ LoadSaved
    \/ \E kind \in Kinds : HandleSend(kind)
    \/ \E k \in Sends : SendChunk(k)
    \/ \E k \in Sends : SendDone(k)
    \/ \E k \in Sends : \E msg \in ErrMessages : SendFailed(k, msg)
    \/ \E k \in Sends : \E title \in Titles : TitleResolved(k, title)
    \/ \E i \in 1..MaxSessions : DeleteChat(i)
    \/ Stop

SpecSend == Init /\ [][NextSend]_vars

\* Navigation: sessions are created, selected and deleted and messages are
\* sent; the generations stay in flight.
NextNav ==
    \/ LoadSaved
    \/ \E kind \in Kinds : HandleSend(kind)
    \/ NewChat
    \/ \E i \in 1..MaxSessions : SelectChat(i)
    \/ \E i \in 1..MaxSessions : DeleteChat(i)

SpecNav == Init /\ [][NextNav]_vars

\* The base64 helpers applied to byte arrays and to texts.
NextCodec ==
    \/ \E bytes \in ByteArrays : EncodeDecode(bytes)
    \/ \E text \in Base64Texts : DecodeEncode(text)

SpecCodec == Init /\ [][NextCodec]_vars

\* Everything the overlay, the chat view and the helpers can do.
Next ==
    \/ RunEffect
    \/ ToggleMode
    \/ Unmount
    \/ Continue
    \/ SessionEvent
    \/ \E c \in Conns : \E m \in LiveMsgs : OnMessage(c, m)
    \/ Playback
    \/ Capture
    \/ NextApp
    \/ NextCodec

Spec == Init /\ [][Next]_vars

\* The lifecycle: mode switches and unmounting, the remote sessions' events
\* and their text messages; no audio arrives.
NextLifecycle ==
    \/ RunEffect
    \/ ToggleMode
    \/ Unmount
    \/ Continue
    \/ SessionEvent
    \/ \E c \in Conns : \E m \in TextOnly(LiveTexts) : OnMessage(c, m)

SpecLifecycle == Init /\ [][NextLifecycle]_vars

\* One session: the overlay is opened and stays open, and the session
\* delivers audio chunks and interruptions.
NextPlayback ==
    \/ RunEffect
    \/ \E c \in Conns : ConnectCleaned(c)
    \/ \E c \in Conns : ConnectResumed(c)
    \/ \E c \in Conns : ConnectGotStream(c)
    \/ \E c \in Conns : ConnectStreamFailed(c)
    \/ SessionEvent
    \/ \E c \in Conns : \E m \in AudioOnly : OnMessage(c, m)
    \/ Playback

SpecPlayback == Init /\ [][NextPlayback]_vars

\* Sessions that play audio and are torn down by a mode switch; the
\* sessions neither fail nor close by themselves.
NextSwitch ==
    \/ RunEffect
    \/ ToggleMode
    \/ Continue
    \/ \E c \in Conns : OnOpen(c)
    \/ \E c \in Conns : \E m \in AudioOnly : OnMessage(c, m)
    \/ Playback

SpecSwitch == Init /\ [][NextSwitch]_vars

\* One session that delivers transcriptions and turn-complete markers.
NextText ==
    \/ RunEffect
    \/ \E c \in Conns : ConnectCleaned(c)
    \/ \E c \in Conns : ConnectResumed(c)
    \/ \E c \in Conns : ConnectGotStream(c)
    \/ \E c \in Conns : OnOpen(c)
    \/ \E c \in Conns : \E m \in TextMsgs : OnMessage(c, m)

SpecText == Init /\ [][NextText]_vars

\* Capture: sessions that are opened and torn down by a mode switch while
\* the microphone and the camera deliver frames; no message arrives.
NextCapture ==
    \/ RunEffect
    \/ ToggleMode
    \/ Continue
    \/ \E c \in Conns : OnOpen(c)
    \/ Capture

SpecCapture == Init /\ [][NextCapture]_vars

\* One session that is opened and stays open while the microphone and the
\* camera deliver frames.
NextOutbound ==
    \/ RunEffect
    \/ \E c \in Conns : ConnectCleaned(c)
    \/ \E c \in Conns : ConnectResumed(c)
    \/ \E c \in Conns : ConnectGotStream(c)
    \/ \E c \in Conns : OnOpen(c)
    \/ Capture

SpecOutbound == Init /\ [][NextOutbound]_vars

\* Mode switches: sessions are connected, opened and torn down by the mode
\* button; getUserMedia succeeds.  Every call that can continue does so
\* eventually (a promise that settles runs its continuation), the effect
\* set-up follows its teardown and a session that was requested opens.
NextRenegotiate ==
    \/ RunEffect
    \/ ToggleMode
    \/ \E k \in CleanupIds : CleanupInputClosed(k)
    \/ \E k \in CleanupIds : CleanupOutputClosed(k)
    \/ \E c \in Conns : ConnectCleaned(c)
    \/ \E c \in Conns : ConnectResumed(c)
    \/ \E c \in Conns : ConnectGotStream(c)
    \/ \E c \in Conns : OnOpen(c)

SpecRenegotiate ==
    /\ Init /\ [][NextRenegotiate]_vars
    /\ WF_vars(RunEffect)
    /\ \A k \in CleanupIds : WF_vars(CleanupInputClosed(k))
    /\ \A k \in CleanupIds : WF_vars(CleanupOutputClosed(k))
    /\ \A c \in Conns : WF_vars(ConnectCleaned(c))
    /\ \A c \in Conns : WF_vars(ConnectResumed(c))
    /\ \A c \in Conns : WF_vars(ConnectGotStream(c))
    /\ \A c \in Conns : WF_vars(OnOpen(c))

\* Connection attempts: mode switches, the continuations of connect() and
\* cleanup() with getUserMedia succeeding or failing, and the events of the
\* remote sessions; no message arrives.
NextAcquire ==
    \/ RunEffect
    \/ ToggleMode
    \/ Continue
    \/ SessionEvent

SpecAcquire == Init /\ [][NextAcquire]_vars

\* The frame sampler: sessions connected in either mode, opened and torn
\* down by the mode button, while the frame timers tick and the captures
\* are encoded, read and queued on the session promise; getUserMedia
\* succeeds and the microphone delivers nothing.
NextSampler ==
    \/ RunEffect
    \/ ToggleMode
    \/ \E k \in CleanupIds : CleanupInputClosed(k)
    \/ \E k \in CleanupIds : CleanupOutputClosed(k)
    \/ \E c \in Conns : ConnectCleaned(c)
    \/ \E c \in Conns : ConnectResumed(c)
    \/ \E c \in Conns : ConnectGotStream(c)
    \/ \E c \in Conns : OnOpen(c)
    \/ \E c \in Conns : \E ready \in BOOLEAN : FrameTick(c, ready)
    \/ \E n \in 1..MaxShots : \E blob \in BOOLEAN : FrameEncoded(n, blob)
    \/ \E n \in 1..MaxShots : FrameRead(n)

SpecSampler == Init /\ [][NextSampler]_vars

\* One session that is opened and stays open while the microphone delivers
\* frames whose samples lie outside [-1, 1].
NextEncode ==
    \/ RunEffect
    \/ \E c \in Conns : ConnectCleaned(c)
    \/ \E c \in Conns : ConnectResumed(c)
    \/ \E c \in Conns : ConnectGotStream(c)
    \/ \E c \in Conns : OnOpen(c)
    \/ \E c \in Conns : \E sample \in WideSamples : OnAudioProcess(c, sample)

SpecEncode == Init /\ [][NextEncode]_vars

\* every message of the specifications above
Msgs == LiveMsgs \cup TextOnly(LiveTexts) \cup AudioOnly \cup TextMsgs

(* ------------------------------- claims -------------------------------- *)
\* a connect call has run to its end
Settled(c) == connPc[c] = "done"

\* no cleanup call is suspended or has failed
CleanupsDone == \A k \in CleanupIds : clPc[k] \in {"idle", "done"}

\* a callback of session c runs while c is not the active token
StaleCallback(c) ==
    /\ activeSessionId # c
    /\ \/ OnOpen(c)
       \/ OnError(c)
       \/ OnClose(c)
       \/ \E m \in Msgs : OnMessage(c, m)

\* C1: a remote-session callback (open, message, error, close) that runs
\* when its token is not the active one changes none of status, connected
\* flag, transcripts, detected language, source set and cursor, and
\* schedules nothing (no decode, no timer).
C1_StaleCallbackIsNoOp ==
    [][\A c \in Conns :
         StaleCallback(c) =>
           UNCHANGED <<status, isConnected, inputTranscript, outputTranscript,
                       detectedLang, sourcesRef, nextStartTime, decoding,
                       sources, frameIntervalRef, timerLive>>]_vars

\* C2: once two successive connect() calls and every cleanup they started
\* have run to their end, the second call's token is the active one, the
\* first call's tracks are stopped and its two audio contexts are closed.
C2_TwoConnectsOneSession ==
    (/\ effects >= 2
     /\ mounted /\ ~effectPending
     /\ Settled(effects - 1) /\ Settled(effects)
     /\ CleanupsDone)
    => /\ activeSessionId = effects
       /\ streamState[effects - 1] # "live"
       /\ inState[effects - 1] # "running"
       /\ outState[effects - 1] # "running"

AudibleEnd(s) ==
    IF s.stopAt >= 0
    THEN Min(s.start + s.dur, Max(s.start, s.stopAt))
    ELSE s.start + s.dur

\* C4: no two chunks of a session sound at the same time: a chunk starts
\* no earlier than the end of every chunk scheduled before it.
C4_NoOverlap ==
    \A i, j \in DOMAIN sources :
        (i < j /\ sources[i].ctx = sources[j].ctx)
        => sources[j].start >= AudibleEnd(sources[i])

\* session c handles an interruption: in onmessage when the message has no
\* audio, after the decode when it has
InterruptedBy(c) ==
    \/ \E m \in Msgs :
          /\ m.interrupted /\ m.audio = 0
          /\ activeSessionId = c
          /\ OnMessage(c, m)
    \/ /\ decoding # <<>>
       /\ Head(decoding).sess = c
       /\ Head(decoding).interrupted
       /\ gainNodeRef = c
       /\ DecodeDone

\* no source is scheduled or sounding
NoLiveSource(srcs) == \A i \in DOMAIN srcs : srcs[i].st # "live"

\* C5 as claimed: an interruption empties the source set, resets the
\* cursor to the current time of the output clock and leaves no source
\* scheduled or sounding.
C5_InterruptionResetsToClock ==
    [][\A c \in Conns :
         InterruptedBy(c) =>
           /\ sourcesRef' = {}
           /\ nextStartTime' = outClock'[c]
           /\ NoLiveSource(sources')]_vars

\* C5 as amended: an interruption empties the source set, resets the
\* cursor to 0 and stops every source, so that none scheduled before it
\* sounds after it.
C5_InterruptionResetsToZero ==
    [][\A c \in Conns :
         InterruptedBy(c) =>
           /\ sourcesRef' = {}
           /\ nextStartTime' = 0
           /\ NoLiveSource(sources')]_vars

\* an interruption flushed a chunk that was scheduled and had not started,
\* at a time when the output clock had advanced
C5_Witness ==
    /\ sourcesRef = {}
    /\ nextStartTime = 0
    /\ \E i \in DOMAIN sources :
          /\ sources[i].st = "stopped"
          /\ sources[i].stopAt < sources[i].start
          /\ outClock[sources[i].ctx] > 0

\* C6: once a stream error has set status to error, status stays error as
\* long as no connect() call runs (stated for the case that no decode is in
\* flight: playback-finished events are then the only ones left).
C6_ErrorIsTerminal ==
    [][(/\ status = "error"
        /\ \E c \in Conns : sessState[c] = "errored"
        /\ decoding = <<>>
        /\ connPc' = connPc)
       => status' = "error"]_vars

\* C7: no call of cleanup() fails, whatever was torn down before it and
\* whatever cleanup() call is still awaiting.
C7_CleanupNeverFails ==
    \A k \in CleanupIds : clPc[k] # "failed"

\* C8: once every continuation of a torn-down connect() attempt has run, its
\* tracks are stopped, its two audio contexts are closed, its frame timer
\* is cleared and its remote session is closed.
C8_NoResourceOutlives ==
    \A c \in Conns :
        (/\ Settled(c)
         /\ activeSessionId # c
         /\ CleanupsDone
         /\ ~effectPending
         /\ decoding = <<>>)
        => /\ streamState[c] # "live"
           /\ inState[c] # "running"
           /\ outState[c] # "running"
           /\ c \notin timerLive
           /\ sessState[c] \notin {"opening", "open"}

\* every attempt other than c is over and torn down
OthersTornDown(c) ==
    \A b \in Conns \ {c} :
        /\ connPc[b] \in {"idle", "done"}
        /\ streamState[b] # "live"
        /\ outState[b] # "running"

\* C9: a session that connect() has established and that has not opened yet
\* (so none of its chunks has arrived) finds the cursor at 0, also when an
\* earlier session played audio and was torn down.
C9_FreshCursor ==
    \A c \in Conns :
        (/\ activeSessionId = c
         /\ sessState[c] = "opening"
         /\ OthersTornDown(c)
         /\ CleanupsDone
         /\ decoding = <<>>)
        => nextStartTime = 0

\* a delta begins with a two-uppercase-letter code in square brackets
HasLangTag(d) ==
    /\ Len(d) >= 4
    /\ <<d[1], d[4]>> = <<"[", "]">>
    /\ {d[2], d[3]} \subseteq Upper

\* the text after the tag and any whitespace following it
AfterLangTag(d) ==
    LET n == CHOOSE n \in 0..(Len(d) - 4) :
                /\ \A i \in 5..(4 + n) : d[i] \in Whitespace
                /\ 4 + n < Len(d) => d[5 + n] \notin Whitespace
    IN  [i \in 1..(Len(d) - 4 - n) |-> d[4 + n + i]]

\* what the claim says of an optional delta: the language and the transcript
ClaimedLang(opt, lang) ==
    IF opt # <<>> /\ HasLangTag(opt[1]) THEN <<opt[1][2], opt[1][3]>> ELSE lang

ClaimedText(opt, t) ==
    IF opt = <<>> THEN t
    ELSE IF HasLangTag(opt[1]) THEN t \o AfterLangTag(opt[1])
    ELSE t \o opt[1]

\* C10: for every transcript delta handled by the active session: a delta
\* that begins with a bracketed two-uppercase-letter code sets the detected
\* language to the code and appends only the text after the tag and its
\* following whitespace; any other delta leaves the language alone and is
\* appended verbatim (the input delta is handled before the output delta,
\* and a turn-complete marker in the same message then clears both).
C10_TranscriptDelta ==
    [][\A c \in Conns : \A m \in TextMsgs :
         (activeSessionId = c /\ mounted /\ OnMessage(c, m)) =>
           /\ detectedLang' = ClaimedLang(m.outT, ClaimedLang(m.inT, detectedLang))
           /\ inputTranscript' =
                IF m.turnComplete THEN <<>> ELSE ClaimedText(m.inT, inputTranscript)
           /\ outputTranscript' =
                IF m.turnComplete THEN <<>> ELSE ClaimedText(m.outT, outputTranscript)]_vars

\* "[RF]  B" then "[FR] B" arrived as input deltas: the language is the
\* later code and only the two B were appended
C10_Witness ==
    /\ detectedLang = <<"F", "R">>
    /\ inputTranscript = <<"B", "B">>
    /\ outputTranscript = <<"[", "f", "r", "]">>

\* C11: when the active session handles a message with a turn-complete
\* marker, both transcripts are empty afterwards, whatever they held and
\* whatever deltas the message carries.
C11_TurnCompleteClears ==
    [][\A c \in Conns : \A m \in TextMsgs :
         (m.turnComplete /\ activeSessionId = c /\ mounted /\ OnMessage(c, m))
         => /\ inputTranscript' = <<>>
            /\ outputTranscript' = <<>>]_vars

\* both transcripts are empty although the language RF was detected, which
\* only arrives with deltas that append text: a turn-complete marker
\* cleared them
C11_Witness ==
    /\ detectedLang = <<"R", "F">>
    /\ inputTranscript = <<>>
    /\ outputTranscript = <<>>

Abs(x) == IF x < 0 THEN -x ELSE x

\* the fraction d is within one quantization step, 1 / 32768, of the
\* sample n / SampleScale
WithinOneStep(n, d) ==
    Abs(d.num * SampleScale - n * d.den) * DecodeScale <= SampleScale * d.den

\* the audio frames of a queue of media
AudioFrames(q) == {q[i] : i \in {j \in DOMAIN q : q[j].kind = "audio"}}

\* C12: every captured sample in [-1, 1], encoded to PCM16 by the capture
\* callback and decoded by decodePCM, comes back within one quantization
\* step (1/32768) of the original.
C12_PCM16RoundTrip ==
    \A c \in Conns : \A f \in AudioFrames(outbox[c] \o sent[c]) :
        WithinOneStep(f.sample, decodePCM(f.data))

C19_CaptureOrder ==
    \A c \in Conns : \A i, j \in DOMAIN sent[c] :
        (i < j /\ sent[c][i].kind = "audio" /\ sent[c][j].kind = "audio")
        => sent[c][i].n < sent[c][j].n

\* two audio frames were handed over, with a video frame between them
C19_Witness ==
    \E c \in Conns :
        /\ Len(sent[c]) >= 3
        /\ sent[c][1].kind = "audio"
        /\ sent[c][2].kind = "video"
        /\ sent[c][3].kind = "audio"

\* connect call c requested a remote session, with the media of the
\* current mode (video exactly when the mode is vision)
Renegotiated(c) ==
    /\ sessState[c] # "none"
    /\ streamState[c] = "live"
    /\ connMode[c] = mode

\* C13: after a mode switch the connect() call it starts eventually
\* establishes a session whose capture matches the new mode, unless a
\* further switch supersedes it.
C13_ModeSwitchRenegotiates ==
    \A c \in 2..MaxConnects :
        (effects = c /\ ~effectPending) ~> (effects > c \/ Renegotiated(c))

\* C15: when getUserMedia fails in the connect() attempt that holds the
\* token, status becomes error; and an attempt that ended without a media
\* stream opened no remote session.
C15_AcquisitionFailure ==
    [][\A c \in Conns :
         /\ (activeSessionId = c /\ mounted /\ ConnectStreamFailed(c))
            => status' = "error"
         /\ (connPc'[c] = "done" /\ streamState'[c] = "none")
            => sessState'[c] = "none"]_vars

\* the active attempt ended without a stream: status is error and no
\* session was requested
C15_Witness ==
    \E c \in Conns :
        /\ activeSessionId = c
        /\ connPc[c] = "done"
        /\ streamState[c] = "none"
        /\ sessState[c] = "none"
        /\ status = "error"

C17_EndedStatus ==
    [][\A i \in 1..MaxChunks :
         (mounted /\ OnEnded(i) /\ sources[i].st = "live")
         => status' = IF sourcesRef' = {} THEN "listening" ELSE status]_vars

\* a source played to its end while another one was still in the set, and
\* status stayed speaking
C17_Witness ==
    /\ status = "speaking"
    /\ sourcesRef # {}
    /\ \E i \in DOMAIN sources : sources[i].st = "ended" /\ sources[i].stopAt < 0

\* a message that has an effect
Effectful(m) ==
    \/ m.audio > 0
    \/ m.interrupted
    \/ m.turnComplete
    \/ m.inT # <<>>
    \/ m.outT # <<>>

GaplessCase ==
    /\ decoding # <<>>
    /\ sources # <<>>
    /\ gainNodeRef = Head(decoding).sess
    /\ sources[Len(sources)].ctx = Head(decoding).sess
    /\ sources[Len(sources)].st = "live"
    /\ outClock[Head(decoding).sess]
         < sources[Len(sources)].start + sources[Len(sources)].dur
    /\ nextStartTime >= outClock[Head(decoding).sess]

\* C20: a chunk scheduled while its predecessor has not finished playing
\* and the cursor is not behind the clock starts exactly at the
\* predecessor's start plus the predecessor's duration.
C20_Gapless ==
    [][(GaplessCase /\ DecodeDone)
       => sources'[Len(sources) + 1].start
            = sources[Len(sources)].start + sources[Len(sources)].dur]_vars

\* the state an interruption leaves behind: the source set is empty, the
\* cursor is 0 and status is listening.  While a decode is in flight this
\* state is only reached by an interruption handled after the chunk
\* arrived: the arrival set status to speaking, and a playback-finished
\* event sets it to listening only after a source advanced the cursor.
AfterInterruption ==
    /\ sourcesRef = {}
    /\ nextStartTime = 0
    /\ status = "listening"

IsPrefix(a, b) == Len(a) <= Len(b) /\ SubSeq(b, 1, Len(a)) = a

\* the active session handles a message with a turn-complete marker
TurnCompleteStep ==
    \E c \in Conns : \E m \in TextMsgs :
        m.turnComplete /\ activeSessionId = c /\ OnMessage(c, m)

\* C22: a message without an input delta leaves the input transcript
\* alone and a message without an output delta leaves the output
\* transcript alone; and in every step other than the handling of a
\* turn-complete marker the old value of each transcript is a prefix of
\* its new value.
C22_AppendOnly ==
    [][/\ ~TurnCompleteStep
          => /\ IsPrefix(inputTranscript, inputTranscript')
             /\ IsPrefix(outputTranscript, outputTranscript')
       /\ \A c \in Conns : \A m \in TextMsgs :
            (~m.turnComplete /\ activeSessionId = c /\ OnMessage(c, m))
            => /\ m.inT = <<>> => inputTranscript' = inputTranscript
               /\ m.outT = <<>> => outputTranscript' = outputTranscript]_vars

\* the input transcript grew by "B" and then by " B" while the output
\* transcript grew by "B" and then by "[fr]"
C22_Witness ==
    /\ inputTranscript = <<"B", " ", "B">>
    /\ outputTranscript = <<"B", "[", "f", "r", "]">>

\* the sources of the active session that were scheduled and have neither
\* ended nor been stopped
LiveSourcesOfActive ==
    {i \in DOMAIN sources :
        sources[i].ctx = activeSessionId /\ sources[i].st = "live"}

VideoFrames(q) == {q[i] : i \in {j \in DOMAIN q : q[j].kind = "video"}}

C25_EncodeWraps ==
    \A c \in Conns : \A f \in AudioFrames(outbox[c] \o sent[c]) :
        Abs(f.sample) > SampleScale =>
          /\ f.data \in -(Int16Span \div 2) .. (Int16Span \div 2 - 1)
          /\ (f.data - Trunc(f.sample * EncodeScale, SampleScale)) % Int16Span = 0
          /\ Abs(Trunc(f.sample * EncodeScale, SampleScale)) > Int16Span \div 2
               => f.data \notin {-(Int16Span \div 2), Int16Span \div 2 - 1}

\* a sample above 1 was encoded to a negative value and a sample below -1
\* to a positive one
C25_Witness ==
    \E c \in Conns : \E f, g \in AudioFrames(outbox[c]) :
        /\ f.sample > SampleScale /\ f.data < 0
        /\ g.sample < -SampleScale /\ g.data > 0

OnlyPatched(ss, tt, sid, mid) ==
    /\ Len(tt) = Len(ss)
    /\ \A i \in DOMAIN ss :
          IF ss[i].id # sid THEN tt[i] = ss[i]
          ELSE /\ tt[i].id = sid
               /\ tt[i].title = ss[i].title
               /\ Len(tt[i].messages) = Len(ss[i].messages)
               /\ \A j \in DOMAIN ss[i].messages :
                     ss[i].messages[j].id # mid
                     => tt[i].messages[j] = ss[i].messages[j]

\* call k applies a chunk, its result or its error
SendStep(k) ==
    \/ SendChunk(k)
    \/ SendDone(k)
    \/ \E msg \in ErrMessages : SendFailed(k, msg)

\* C27: a chunk, result or error of a handleSend call changes nothing but
\* the placeholder message of that call in the session the call targeted;
\* when that session has been deleted the list of sessions is unchanged.
C27_OnlyOwnPlaceholder ==
    [][\A k \in Sends :
         SendStep(k) =>
           /\ OnlyPatched(sessions, sessions', sends[k].target, sends[k].aiMsgId)
           /\ Find(sessions, sends[k].target) = {} => sessions' = sessions]_vars

\* two calls are in flight, the later one has applied a chunk, and the
\* session the earlier one targets has been deleted
C27_Witness ==
    \E k, l \in Sends :
        /\ k < l
        /\ sends[k].pc = "gen" /\ sends[l].pc = "gen"
        /\ sends[l].n > 0
        /\ Find(sessions, sends[k].target) = {}
        /\ Find(sessions, sends[l].target) # {}

\* the messages of the session sid of the list ss with id mid
MsgsOf(ss, sid, mid) ==
    UNION {{ss[i].messages[j] :
               j \in {n \in DOMAIN ss[i].messages : ss[i].messages[n].id = mid}} :
           i \in Find(ss, sid)}

\* C28: when the generation of a call throws, the placeholder of the call
\* (if its session still exists) holds "Neural Exception: <message>" with
\* isError set, the user message of the call is still in the session,
\* cloudStatus is idle and isGenerating is false; when it ends without an
\* error cloudStatus is verified and isGenerating is false.
C28_SendOutcome ==
    [][\A k \in Sends :
         /\ \A msg \in ErrMessages :
              SendFailed(k, msg) =>
                /\ cloudStatus' = "idle"
                /\ isGenerating' = FALSE
                /\ Find(sessions, sends[k].target) # {} =>
                     /\ \E m \in MsgsOf(sessions', sends[k].target, sends[k].aiMsgId) :
                           /\ m.text = "Neural Exception: " \o msg
                           /\ m.isError
                     /\ \E u \in MsgsOf(sessions', sends[k].target, sends[k].aiMsgId - 1) :
                           u.role = "user"
         /\ SendDone(k) =>
              /\ cloudStatus' = "verified"
              /\ isGenerating' = FALSE]_vars

\* a call failed after its stream had yielded a chunk: its placeholder
\* holds the error text, follows the user message, and the status is idle
C28_Witness ==
    /\ cloudStatus = "idle"
    /\ ~isGenerating
    /\ \E k \in Sends :
          /\ sends[k].pc = "done"
          /\ sends[k].n > 0
          /\ \E m \in MsgsOf(sessions, sends[k].target, sends[k].aiMsgId) :
                m.isError /\ m.text = "Neural Exception: Failed to fetch"
          /\ MsgsOf(sessions, sends[k].target, sends[k].aiMsgId - 1) # {}

\* C29: currentSessionId is null or the id of a session of the list.
C29_CurrentSessionExists ==
    currentSessionId = 0 \/ Find(sessions, currentSessionId) # {}

\* the current session was deleted while another one, which a message was
\* sent in, remains: there is no current session
C29_Witness ==
    /\ currentSessionId = 0
    /\ chatCount > 0
    /\ \E i \in DOMAIN sessions : sessions[i].messages # <<>>

\* a canonical base64 text: its length is a multiple of four, it consists
\* of characters of the alphabet followed by at most two "=", and the bits
\* of the last character that belong to no byte are 0
Canonical(text) ==
    LET n    == Len(text)
        pad  == IF n > 0 /\ text[n] = "="
                THEN IF n > 1 /\ text[n - 1] = "=" THEN 2 ELSE 1
                ELSE 0
    IN  /\ n % 4 = 0
        /\ \A i \in 1..(n - pad) : IsBase64Char(text[i])
        /\ pad = 1 => Value(text[n - 1]) % 4 = 0
        /\ pad = 2 => Value(text[n - 2]) % 16 = 0

\* C30: decoding the encoding of a byte array gives the byte array, and
\* encoding the decoding of a canonical base64 text gives the text.
C30_Base64RoundTrip ==
    /\ codec.dir = "bytes" => codec.backBytes = codec.bytes
    /\ (codec.dir = "text" /\ Canonical(codec.text)) => codec.backText = codec.text

\* the canonical text "/Q==" was decoded to the byte 253 and encoded again
C30_Witness ==
    /\ codec.dir = "text"
    /\ codec.text = <<"/", "Q", "=", "=">>
    /\ codec.bytes = <<253>>
    /\ codec.backText = codec.text

====
